---- MODULE Spec2Model ----
(***************************************************************************)
(* MiroboVacuum (vacuum.py): a Home Assistant vacuum entity that polls a   *)
(* device client for a status snapshot, derives state/attribute properties *)
(* from it and forwards commands to the device client through the error    *)
(* guard _try_command.                                                     *)
(***************************************************************************)
EXTENDS Integers, Sequences, FiniteSets, Bags, TLC

(***************************************************************************)
(* Python values.  Every value carries its type so that None, integers,    *)
(* strings, dicts and lists can be told apart the way Python tells them    *)
(* apart.  A string is the sequence of the code points of its characters,  *)
(* a dict the sequence of its <<key, value>> items in insertion order.     *)
(***************************************************************************)
PyNone == [t |-> "None"]

PyInt(n) == [t |-> "int", v |-> n]

PyStr(s) == [t |-> "str", v |-> s]

PyBool(b) == [t |-> "bool", v |-> b]

PyDict(items) == [t |-> "dict", v |-> items]

PyList(elems) == [t |-> "list", v |-> elems]

\* ------------------------------------------------------------- bounds
\* status codes the device reports: 0..MaxStatusCode (1..6 are known)
MaxStatusCode == 7

\* fan-speed codes the device reports: 0..MaxFanCode (0..3 are known)
MaxFanCode == 4

\* command invocations that may be awaiting their device call at once
MaxInFlight == 1

\* ---------------------------------------------------------- constants
\* "cleaning"
STATE_CLEANING == PyStr(<<99, 108, 101, 97, 110, 105, 110, 103>>)

\* "idle"
STATE_IDLE == PyStr(<<105, 100, 108, 101>>)

\* "paused"
STATE_PAUSED == PyStr(<<112, 97, 117, 115, 101, 100>>)

\* "error"
STATE_ERROR == PyStr(<<101, 114, 114, 111, 114>>)

\* "returning"
STATE_RETURNING == PyStr(<<114, 101, 116, 117, 114, 110, 105, 110, 103>>)

\* "docked"
STATE_DOCKED == PyStr(<<100, 111, 99, 107, 101, 100>>)

\* "Silent"
Silent == PyStr(<<83, 105, 108, 101, 110, 116>>)

\* "Standard"
Standard == PyStr(<<83, 116, 97, 110, 100, 97, 114, 100>>)

\* "Medium"
Medium == PyStr(<<77, 101, 100, 105, 117, 109>>)

\* "Turbo"
Turbo == PyStr(<<84, 117, 114, 98, 111>>)

STATE_CODE_TO_STATE ==
    PyDict(<< <<PyInt(1), STATE_CLEANING>>,
              <<PyInt(2), STATE_IDLE>>,
              <<PyInt(3), STATE_PAUSED>>,
              <<PyInt(4), STATE_ERROR>>,
              <<PyInt(5), STATE_RETURNING>>,
              <<PyInt(6), STATE_DOCKED>> >>)

SPEED_CODE_TO_NAME ==
    PyDict(<< <<PyInt(0), Silent>>,
              <<PyInt(1), Standard>>,
              <<PyInt(2), Medium>>,
              <<PyInt(3), Turbo>> >>)

\* "fan_speed"
ATTR_FAN_SPEED ==
    PyStr(<<102, 97, 110, 95, 115, 112, 101, 101, 100>>)

\* "main_brush_time_left"
ATTR_MAIN_BRUSH_LEFT_TIME ==
    PyStr(<<109, 97, 105, 110, 95, 98, 114, 117, 115, 104, 95, 116, 105, 109, 101, 95, 108, 101, 102, 116>>)

\* "main_brush_life_level"
ATTR_MAIN_BRUSH_LIFE_LEVEL ==
    PyStr(<<109, 97, 105, 110, 95, 98, 114, 117, 115, 104, 95, 108, 105, 102, 101, 95, 108, 101, 118, 101, 108>>)

\* "side_brush_time_left"
ATTR_SIDE_BRUSH_LEFT_TIME ==
    PyStr(<<115, 105, 100, 101, 95, 98, 114, 117, 115, 104, 95, 116, 105, 109, 101, 95, 108, 101, 102, 116>>)

\* "side_brush_life_level"
ATTR_SIDE_BRUSH_LIFE_LEVEL ==
    PyStr(<<115, 105, 100, 101, 95, 98, 114, 117, 115, 104, 95, 108, 105, 102, 101, 95, 108, 101, 118, 101, 108>>)

\* "filter_life_level"
ATTR_FILTER_LIFE_LEVEL ==
    PyStr(<<102, 105, 108, 116, 101, 114, 95, 108, 105, 102, 101, 95, 108, 101, 118, 101, 108>>)

\* "filter_left_time"
ATTR_FILTER_LEFT_TIME ==
    PyStr(<<102, 105, 108, 116, 101, 114, 95, 108, 101, 102, 116, 95, 116, 105, 109, 101>>)

\* "total_cleaning_count"
ATTR_CLEANING_TOTAL_TIME ==
    PyStr(<<116, 111, 116, 97, 108, 95, 99, 108, 101, 97, 110, 105, 110, 103, 95, 99, 111, 117, 110, 116>>)

\* ------------------------------------------------- Python operations
\* a == b as dict keys compare: a bool equals the integer 0 or 1
PyEq(a, b) ==
    IF a.t \in {"int", "bool"} /\ b.t \in {"int", "bool"}
    THEN (IF a.t = "bool" THEN (IF a.v THEN 1 ELSE 0) ELSE a.v)
            = (IF b.t = "bool" THEN (IF b.v THEN 1 ELSE 0) ELSE b.v)
    ELSE a = b

\* key in d, for a dict d
DictContains(d, k) == \E i \in 1..Len(d.v) : PyEq(d.v[i][1], k)

\* d[key], defined when DictContains(d, key)
DictGet(d, k) ==
    LET i == CHOOSE j \in 1..Len(d.v) : PyEq(d.v[j][1], k) IN d.v[i][2]

\* d[k] = val on the items of a dict: the value of an equal key is replaced
\* in place (the stored key stays), a new key is appended
RECURSIVE DictPut(_, _, _)
DictPut(items, k, val) ==
    IF items = <<>> THEN << <<k, val>> >>
    ELSE IF PyEq(Head(items)[1], k) THEN << <<Head(items)[1], val>> >> \o Tail(items)
    ELSE << Head(items) >> \o DictPut(Tail(items), k, val)

RECURSIVE ReverseItems(_, _)
ReverseItems(items, acc) ==
    IF items = <<>> THEN acc
    ELSE ReverseItems(Tail(items), DictPut(acc, Head(items)[2], Head(items)[1]))

\* {v: k for k, v in d.items()}
DictReverse(d) == PyDict(ReverseItems(d.v, <<>>))

\* list(d): the keys of d in insertion order
DictKeys(d) == PyList([i \in 1..Len(d.v) |-> d.v[i][1]])

\* the truth value of x (None, 0 and empty containers are false)
Truthy(x) ==
    CASE x.t = "None" -> FALSE
      [] x.t = "int" -> x.v # 0
      [] x.t = "bool" -> x.v
      [] OTHER -> x.v # <<>>

\* The code points int() strips from both ends of a string: the ASCII
\* whitespace \t \n \v \f \r and space, and the Unicode whitespace above
\* U+007F (U+0085, U+00A0, U+1680, U+2000..U+200A, U+2028, U+2029, U+202F,
\* U+205F, U+3000).  The separators U+001C..U+001F are not stripped.
IsSpace(c) ==
    c \in (9..13) \cup {32, 133, 160, 5760} \cup (8192..8202)
            \cup {8232, 8233, 8239, 8287, 12288}

RECURSIVE LStrip(_)
LStrip(s) == IF s # <<>> /\ IsSpace(Head(s)) THEN LStrip(Tail(s)) ELSE s

RECURSIVE RStrip(_)
RStrip(s) ==
    IF s # <<>> /\ IsSpace(s[Len(s)]) THEN RStrip(SubSeq(s, 1, Len(s) - 1)) ELSE s

\* The code point of the digit zero of every decimal digit sequence int()
\* accepts (Unicode category Nd): ASCII "0" is 48; each is followed by its
\* digits one to nine.
DecimalZeros ==
    {48, 1632, 1776, 1984, 2406, 2534, 2662, 2790, 2918, 3046,
     3174, 3302, 3430, 3558, 3664, 3792, 3872, 4160, 4240, 6112,
     6160, 6470, 6608, 6784, 6800, 6992, 7088, 7232, 7248, 42528,
     43216, 43264, 43472, 43504, 43600, 44016, 65296, 66720, 68912, 69734,
     69872, 69942, 70096, 70384, 70736, 70864, 71248, 71360, 71472, 71904,
     72016, 72784, 73040, 73120, 92768, 92864, 93008, 120782, 120792, 120802,
     120812, 120822, 123200, 123632, 125264, 130032}

IsDigit(c) == \E z \in DecimalZeros : c \in z..(z + 9)

DigitVal(c) == c - (CHOOSE z \in DecimalZeros : c \in z..(z + 9))

\* decimal digits, single underscores (95) allowed between two digits
ValidBody(b) ==
    /\ b # <<>>
    /\ \A i \in 1..Len(b) :
          \/ IsDigit(b[i])
          \/ /\ b[i] = 95
             /\ i > 1
             /\ i < Len(b)
             /\ IsDigit(b[i - 1])
             /\ IsDigit(b[i + 1])

RECURSIVE BodyVal(_, _)
BodyVal(b, acc) ==
    IF b = <<>> THEN acc
    ELSE IF Head(b) = 95 THEN BodyVal(Tail(b), acc)
    ELSE BodyVal(Tail(b), acc * 10 + DigitVal(Head(b)))

\* int(x): [exc, v]; exc is "none", "ValueError" or "TypeError".  A string
\* is stripped, may start with one sign (43 "+", 45 "-") and is read in
\* base 10.
py_int(x) ==
    CASE x.t = "int" -> [exc |-> "none", v |-> x.v]
      [] x.t = "bool" -> [exc |-> "none", v |-> IF x.v THEN 1 ELSE 0]
      [] x.t = "str" ->
           LET s == RStrip(LStrip(x.v))
               signed == s # <<>> /\ Head(s) \in {43, 45}
               body == IF signed THEN Tail(s) ELSE s
           IN  IF ValidBody(body)
               THEN [exc |-> "none",
                     v |-> IF signed /\ Head(s) = 45
                           THEN 0 - BodyVal(body, 0)
                           ELSE BodyVal(body, 0)]
               ELSE [exc |-> "ValueError", v |-> 0]
      [] OTHER -> [exc |-> "TypeError", v |-> 0]

\* --------------------------------------------------- the device client
\* The battery and consumable readings that accompany status code c; the
\* eight readings of one status object differ, and differ from those of
\* every other status object.
DeviceReading(c) ==
    [battery           |-> PyInt(10 * c),
     total_clean_count |-> PyInt(10 * c + 1),
     brush_left_time   |-> PyInt(10 * c + 2),
     brush_life_level  |-> PyInt(10 * c + 3),
     brush_left_time2  |-> PyInt(10 * c + 4),
     brush_life_level2 |-> PyInt(10 * c + 5),
     filter_life_level |-> PyInt(10 * c + 6),
     filter_left_time  |-> PyInt(10 * c + 7)]

\* The objects status() may return.
StatusObjects ==
    { [status            |-> PyInt(c),
       battery           |-> DeviceReading(c).battery,
       fan_speed         |-> PyInt(f),
       total_clean_count |-> DeviceReading(c).total_clean_count,
       brush_left_time   |-> DeviceReading(c).brush_left_time,
       brush_life_level  |-> DeviceReading(c).brush_life_level,
       brush_left_time2  |-> DeviceReading(c).brush_left_time2,
       brush_life_level2 |-> DeviceReading(c).brush_life_level2,
       filter_life_level |-> DeviceReading(c).filter_life_level,
       filter_left_time  |-> DeviceReading(c).filter_left_time] :
      c \in 0..MaxStatusCode, f \in 0..MaxFanCode }

\* How a status() call ends: it returns, or raises a low-level I/O failure
\* or a device-communication failure.
StatusOutcomes == {"ok", "OSError", "DeviceException"}

\* How a command call of the device client ends.
CommandOutcomes == {"ok", "DeviceException"}

\* The values a caller passes to async_set_fan_speed: the platform's
\* set_fan_speed service hands over a string.  In order: "Turbo", "7",
\* "\f3" (form feed, 3), "bogus", "3.5", "".
RequestedSpeeds ==
    { Turbo, PyStr(<<55>>), PyStr(<<12, 51>>), PyStr(<<98, 111, 103, 117, 115>>), PyStr(<<51, 46, 53>>), PyStr(<<>>) }

\* --------------------------------------------------------------- state
VARIABLES
    vacuum_state, battery_percentage, _current_fan_speed,
    _fan_speeds, _fan_speeds_reverse,
    _main_brush_time_left, _main_brush_life_level,
    _side_brush_time_left, _side_brush_life_level,
    _filter_life_level, _filter_left_time, _total_clean_count,
    inflight,    \* the command invocations suspended at the await of
                 \* _try_command, their device call handed to the executor
    lastOp,      \* the operation that took the last step, its argument and
                 \* whether it is now "awaiting" its device call or "returned"
    dev,         \* how that operation's device call ended ("none": no call,
                 \* "pending": not ended yet)
    calls,       \* the device-client calls that operation issued
    logs,        \* the log entries it emitted
    guard,       \* what _try_command returned in it (None: not reached)
    ret,         \* what it returned to the caller
    raised,      \* the exception that propagated to the caller ("none")
    lastStatus   \* the object the latest successful status() returned

snapshot ==
    <<vacuum_state, battery_percentage, _current_fan_speed,
      _main_brush_time_left, _main_brush_life_level,
      _side_brush_time_left, _side_brush_life_level,
      _filter_life_level, _filter_left_time, _total_clean_count>>

self == <<snapshot, _fan_speeds, _fan_speeds_reverse>>

vars ==
    <<self, inflight, lastOp, dev, calls, logs, guard, ret, raised, lastStatus>>

Call(func, args) == [func |-> func, args |-> args]

LogEntry(level, msg) == [level |-> level, msg |-> msg]

\* what a property read does besides returning a value
Outcome(value, entries, exc) == [value |-> value, logs |-> entries, raised |-> exc]

Init ==
    /\ vacuum_state = PyNone
    /\ battery_percentage = PyNone
    /\ _current_fan_speed = PyNone
    /\ _fan_speeds = PyNone
    /\ _fan_speeds_reverse = PyNone
    /\ _main_brush_time_left = PyNone
    /\ _main_brush_life_level = PyNone
    /\ _side_brush_time_left = PyNone
    /\ _side_brush_life_level = PyNone
    /\ _filter_life_level = PyNone
    /\ _filter_left_time = PyNone
    /\ _total_clean_count = PyNone
    /\ inflight = EmptyBag
    /\ lastOp = [op |-> "__init__", arg |-> PyNone, phase |-> "returned"]
    /\ dev = "none"
    /\ calls = <<>>
    /\ logs = <<>>
    /\ guard = PyNone
    /\ ret = PyNone
    /\ raised = "none"
    /\ lastStatus = PyNone

\* ---------------------------------------------------------- properties
state ==
    IF vacuum_state # PyNone
    THEN LET code == py_int(vacuum_state)
         IN  IF code.exc # "none" THEN Outcome(PyNone, <<>>, code.exc)
             ELSE IF DictContains(STATE_CODE_TO_STATE, PyInt(code.v))
             THEN Outcome(DictGet(STATE_CODE_TO_STATE, PyInt(code.v)), <<>>, "none")
             ELSE Outcome(PyNone,
                          <<LogEntry("error", "STATE_CODE not supported: %s")>>,
                          "none")
    ELSE Outcome(PyNone, <<>>, "none")

battery_level ==
    IF vacuum_state # PyNone
    THEN Outcome(battery_percentage, <<>>, "none")
    ELSE Outcome(PyNone, <<>>, "none")

fan_speed ==
    IF vacuum_state # PyNone
    THEN LET speed == _current_fan_speed
         IN  IF _fan_speeds_reverse.t # "dict"
             THEN Outcome(PyNone, <<>>, "TypeError")
             ELSE IF DictContains(_fan_speeds_reverse, speed)
             THEN Outcome(DictGet(_fan_speeds_reverse, speed), <<>>, "none")
             ELSE Outcome(speed,
                          <<LogEntry("debug", "Unable to find reverse for %s")>>,
                          "none")
    ELSE Outcome(PyNone, <<>>, "none")

fan_speed_list ==
    IF Truthy(_fan_speeds)
    THEN Outcome(DictKeys(_fan_speeds), <<>>, "none")
    ELSE Outcome(PyList(<<>>), <<>>, "none")

device_state_attributes ==
    IF vacuum_state # PyNone
    THEN Outcome(PyDict(<< <<ATTR_FAN_SPEED, _current_fan_speed>>,
                           <<ATTR_MAIN_BRUSH_LEFT_TIME, _main_brush_time_left>>,
                           <<ATTR_MAIN_BRUSH_LIFE_LEVEL, _main_brush_life_level>>,
                           <<ATTR_SIDE_BRUSH_LEFT_TIME, _side_brush_time_left>>,
                           <<ATTR_SIDE_BRUSH_LIFE_LEVEL, _side_brush_life_level>>,
                           <<ATTR_FILTER_LIFE_LEVEL, _filter_life_level>>,
                           <<ATTR_FILTER_LEFT_TIME, _filter_left_time>>,
                           <<ATTR_CLEANING_TOTAL_TIME, _total_clean_count>> >>),
                 <<>>, "none")
    ELSE Outcome(PyNone, <<>>, "none")

\* A property read: the caller observes the value, the log and the exception.
Read(name, r) ==
    /\ lastOp' = [op |-> name, arg |-> PyNone, phase |-> "returned"]
    /\ dev' = "none"
    /\ calls' = <<>>
    /\ logs' = r.logs
    /\ guard' = PyNone
    /\ ret' = r.value
    /\ raised' = r.raised
    /\ UNCHANGED <<self, inflight, lastStatus>>

ReadState == Read("state", state)

ReadBatteryLevel == Read("battery_level", battery_level)

ReadFanSpeed == Read("fan_speed", fan_speed)

ReadFanSpeedList == Read("fan_speed_list", fan_speed_list)

ReadAttributes == Read("device_state_attributes", device_state_attributes)

\* ------------------------------------------------------------ commands
\* A command handler is a coroutine: it runs on the event loop up to the
\* await in _try_command, where its device call is handed to the executor
\* and the event loop is free to run polls, property reads and other
\* handlers; it resumes when the call has ended.

\* _try_command without the except clause: the DeviceException propagates.
_try_command_reraises(mask_error, outcome) ==
    IF outcome = "ok"
    THEN [logs |-> <<>>, ret |-> PyBool(TRUE), raised |-> "none"]
    ELSE [logs |-> <<>>, ret |-> PyNone, raised |-> outcome]

\* _try_command from the end of its device call on: True when the call
\* returned; a DeviceException is logged and turned into False; any other
\* exception propagates.
_try_command(mask_error, outcome) ==
    IF outcome = "ok"
    THEN [logs |-> <<>>, ret |-> PyBool(TRUE), raised |-> "none"]
    ELSE IF outcome = "DeviceException"
    THEN [logs |-> <<LogEntry("error", mask_error)>>,
          ret |-> PyBool(FALSE), raised |-> "none"]
    ELSE [logs |-> <<>>, ret |-> PyNone, raised |-> outcome]

\* A handler reaches the await of _try_command: func(*args) is handed to the
\* executor and the handler is suspended; it assigns no field of self.
Await(name, arg, mask_error, func, args) ==
    /\ BagCardinality(inflight) < MaxInFlight
    /\ inflight' = inflight (+) SetToBag({[op |-> name, arg |-> arg,
                                           mask_error |-> mask_error,
                                           call |-> Call(func, args)]})
    /\ lastOp' = [op |-> name, arg |-> arg, phase |-> "awaiting"]
    /\ dev' = "pending"
    /\ calls' = <<Call(func, args)>>
    /\ logs' = <<>>
    /\ guard' = PyNone
    /\ ret' = PyNone
    /\ raised' = "none"
    /\ UNCHANGED <<self, lastStatus>>

\* The device call of a suspended handler ends; the handler resumes in
\* _try_command and returns to its caller.
Resume ==
    \E inv \in BagToSet(inflight), o \in CommandOutcomes :
        LET r == _try_command(inv.mask_error, o)
        IN  /\ inflight' = inflight (-) SetToBag({inv})
            /\ lastOp' = [op |-> inv.op, arg |-> inv.arg, phase |-> "returned"]
            /\ dev' = o
            /\ calls' = <<inv.call>>
            /\ logs' = r.logs
            /\ guard' = r.ret
            /\ ret' = PyNone
            /\ raised' = r.raised
            /\ UNCHANGED <<self, lastStatus>>

async_locate ==
    Await("locate", PyNone, "Unable to locate the botvac: %s", "find", <<>>)

async_start ==
    Await("start", PyNone, "Unable to start the vacuum: %s", "start", <<>>)

async_stop ==
    Await("stop", PyNone, "Unable to stop: %s", "stop", <<>>)

\* async_pause forwarding to a pause call of the device client.
async_pause_calls_pause ==
    Await("pause", PyNone, "Unable to set start/pause: %s", "pause", <<>>)

async_pause ==
    Await("pause", PyNone, "Unable to set start/pause: %s", "stop", <<>>)

async_return_to_base ==
    Await("return_to_base", PyNone, "Unable to return home: %s", "return_home", <<>>)

\* async_set_fan_speed up to its return or its _try_command call: either it
\* ends at once (await is FALSE) with the log entries and the exception
\* given, or it goes on to call set_fan_speed(*args) on the device.
set_fan_speed(requested) ==
    IF _fan_speeds.t # "dict"
    THEN [await |-> FALSE, args |-> <<>>, logs |-> <<>>, raised |-> "TypeError"]
    ELSE IF DictContains(_fan_speeds, requested)
    THEN [await |-> TRUE, args |-> <<DictGet(_fan_speeds, requested)>>,
          logs |-> <<>>, raised |-> "none"]
    ELSE LET n == py_int(requested)
         IN  IF n.exc = "ValueError"
             THEN [await |-> FALSE, args |-> <<>>,
                   logs |-> <<LogEntry("error",
                      "Fan speed step not recognized (%s). Valid speeds are: %s")>>,
                   raised |-> "none"]
             ELSE IF n.exc # "none"
             THEN [await |-> FALSE, args |-> <<>>, logs |-> <<>>, raised |-> n.exc]
             ELSE [await |-> TRUE, args |-> <<PyInt(n.v)>>,
                   logs |-> <<>>, raised |-> "none"]

async_set_fan_speed ==
    \E requested \in RequestedSpeeds :
        LET r == set_fan_speed(requested)
        IN  IF r.await
            THEN Await("set_fan_speed", requested, "Unable to set fan speed: %s",
                       "set_fan_speed", r.args)
            ELSE /\ lastOp' = [op |-> "set_fan_speed", arg |-> requested,
                               phase |-> "returned"]
                 /\ dev' = "none"
                 /\ calls' = <<>>
                 /\ logs' = r.logs
                 /\ guard' = PyNone
                 /\ ret' = PyNone
                 /\ raised' = r.raised
                 /\ UNCHANGED <<self, inflight, lastStatus>>

\* ---------------------------------------------------------------- poll
\* update with the two side-brush assignments reading the main-brush fields.
update_try_swapped(st) ==
    /\ vacuum_state' = st.status
    /\ _fan_speeds' = SPEED_CODE_TO_NAME
    /\ _fan_speeds_reverse' = DictReverse(SPEED_CODE_TO_NAME)
    /\ battery_percentage' = st.battery
    /\ _total_clean_count' = st.total_clean_count
    /\ _current_fan_speed' = st.fan_speed
    /\ _main_brush_time_left' = st.brush_left_time
    /\ _main_brush_life_level' = st.brush_life_level
    /\ _side_brush_time_left' = st.brush_left_time
    /\ _side_brush_life_level' = st.brush_life_level
    /\ _filter_life_level' = st.filter_life_level
    /\ _filter_left_time' = st.filter_left_time
    /\ logs' = <<>>
    /\ raised' = "none"
    /\ lastStatus' = st

\* update, status() returned st: every snapshot field and both maps are
\* assigned.
update_try(st) ==
    /\ vacuum_state' = st.status
    /\ _fan_speeds' = SPEED_CODE_TO_NAME
    /\ _fan_speeds_reverse' = DictReverse(_fan_speeds')
    /\ battery_percentage' = st.battery
    /\ _total_clean_count' = st.total_clean_count
    /\ _current_fan_speed' = st.fan_speed
    /\ _main_brush_time_left' = st.brush_left_time
    /\ _main_brush_life_level' = st.brush_life_level
    /\ _side_brush_time_left' = st.brush_left_time2
    /\ _side_brush_life_level' = st.brush_life_level2
    /\ _filter_life_level' = st.filter_life_level
    /\ _filter_left_time' = st.filter_left_time
    /\ logs' = <<>>
    /\ raised' = "none"
    /\ lastStatus' = st

\* update that builds the fan-speed maps before the fetch, so that they
\* are set even when status() raises.
update_except_builds_maps(exc) ==
    /\ _fan_speeds' = SPEED_CODE_TO_NAME
    /\ _fan_speeds_reverse' = DictReverse(SPEED_CODE_TO_NAME)
    /\ UNCHANGED <<snapshot, lastStatus>>
    /\ logs' = IF exc = "OSError"
               THEN <<LogEntry("error", "Got OSError while fetching the state: %s")>>
               ELSE <<>>
    /\ raised' = IF exc = "OSError" THEN "none" ELSE exc

\* update that drops the stored status code when status() raises.
update_except_clears(exc) ==
    /\ vacuum_state' = PyNone
    /\ UNCHANGED <<battery_percentage, _current_fan_speed,
                   _main_brush_time_left, _main_brush_life_level,
                   _side_brush_time_left, _side_brush_life_level,
                   _filter_life_level, _filter_left_time, _total_clean_count,
                   _fan_speeds, _fan_speeds_reverse, lastStatus>>
    /\ logs' = IF exc = "OSError"
               THEN <<LogEntry("error", "Got OSError while fetching the state: %s")>>
               ELSE <<>>
    /\ raised' = IF exc = "OSError" THEN "none" ELSE exc

\* update, status() raised exc: an OSError is logged, any other exception
\* propagates; nothing was assigned before the raise.
update_except(exc) ==
    /\ UNCHANGED <<self, lastStatus>>
    /\ logs' = IF exc = "OSError"
               THEN <<LogEntry("error", "Got OSError while fetching the state: %s")>>
               ELSE <<>>
    /\ raised' = IF exc = "OSError" THEN "none" ELSE exc

\* update is a plain (synchronous) method: it runs from its status() call
\* to its return without yielding to the handlers.
update ==
    \E o \in StatusOutcomes :
        /\ lastOp' = [op |-> "update", arg |-> PyNone, phase |-> "returned"]
        /\ dev' = o
        /\ calls' = <<Call("status", <<>>)>>
        /\ guard' = PyNone
        /\ ret' = PyNone
        /\ UNCHANGED inflight
        /\ IF o = "ok"
           THEN \E st \in StatusObjects : update_try(st)
           ELSE update_except(o)

Next ==
    \/ update
    \/ async_locate
    \/ async_start
    \/ async_stop
    \/ async_pause
    \/ async_return_to_base
    \/ async_set_fan_speed
    \/ Resume
    \/ ReadState
    \/ ReadBatteryLevel
    \/ ReadFanSpeed
    \/ ReadFanSpeedList
    \/ ReadAttributes

Spec == Init /\ [][Next]_vars

\* ============================================================== claims
CommandOps == {"locate", "start", "stop", "pause", "return_to_base"}

\* the label the specification gives each known status code
ExpectedLabel(c) ==
    CASE c = 1 -> STATE_CLEANING [] c = 2 -> STATE_IDLE [] c = 3 -> STATE_PAUSED
      [] c = 4 -> STATE_ERROR [] c = 5 -> STATE_RETURNING [] c = 6 -> STATE_DOCKED

\* the name the specification gives each known fan-speed code
ExpectedName(c) ==
    CASE c = 0 -> Silent [] c = 1 -> Standard [] c = 2 -> Medium [] c = 3 -> Turbo

SpeedNames == {Silent, Standard, Medium, Turbo}

\* the code the specification gives each speed name
ExpectedCode(name) == CHOOSE c \in 0..3 : ExpectedName(c) = name

\* "unknown"
UnknownLabel == PyStr(<<117, 110, 107, 110, 111, 119, 110>>)

\* requested resolves to a speed code: a known name, or integer-parseable
Resolvable(requested) ==
    requested \in SpeedNames \/ py_int(requested).exc = "none"

ResolvedCode(requested) ==
    IF requested \in SpeedNames THEN ExpectedCode(requested)
    ELSE py_int(requested).v

\* what every snapshot-derived property returns
Observed ==
    <<state.value, battery_level.value, fan_speed.value, fan_speed_list.value,
      device_state_attributes.value>>

\* C1: a poll whose status fetch raises leaves state, battery_level,
\* fan_speed, fan_speed_list and the attributes returning what they returned
\* just before the poll.
C1_FailedPollKeepsProperties ==
    [][(lastOp'.op = "update" /\ dev' # "ok") => Observed' = Observed]_vars

\* a poll failed after an earlier poll had stored a snapshot, while a
\* command was awaiting its device call
C1_Witness ==
    /\ lastOp.op = "update"
    /\ dev = "OSError"
    /\ lastStatus # PyNone
    /\ state.value = STATE_DOCKED
    /\ inflight # EmptyBag

\* C2: codes 1..6 give their label; any other integer code gives the
\* unknown label with exactly one diagnostic log entry; state never raises.
C2_UnknownLabelForOtherCodes ==
    vacuum_state # PyNone =>
        /\ state.raised = "none"
        /\ IF vacuum_state.v \in 1..6
           THEN state.value = ExpectedLabel(vacuum_state.v)
           ELSE state.value = UnknownLabel /\ Len(state.logs) = 1

\* C3: after a successful poll, set_fan_speed(requested) with a known name or
\* an integer-parseable value issues exactly one set_fan_speed device call
\* carrying the integer code (the name's code, else the parsed integer).
C3_SetFanSpeedResolvesCode ==
    (lastOp.op = "set_fan_speed" /\ lastStatus # PyNone /\ Resolvable(lastOp.arg)) =>
        calls = <<Call("set_fan_speed", <<PyInt(ResolvedCode(lastOp.arg))>>)>>

\* C4: in every state, set_fan_speed with a value that is neither a known
\* name nor integer-parseable issues no device call, logs an error, raises
\* nothing and leaves every snapshot field unchanged.
C4_UnrecognizedSpeedIsHarmless ==
    [][(lastOp'.op = "set_fan_speed" /\ ~Resolvable(lastOp'.arg)) =>
          /\ calls' = <<>>
          /\ \E i \in 1..Len(logs') : logs'[i].level = "error"
          /\ raised' = "none"
          /\ snapshot' = snapshot]_vars

\* C5: with a stored fan-speed code in 0..3, fan_speed returns the matching
\* name; only a code without a map entry is returned raw, with one log entry.
C5_FanSpeedName ==
    vacuum_state # PyNone =>
        IF _current_fan_speed.v \in 0..3
        THEN fan_speed.value = ExpectedName(_current_fan_speed.v)
        ELSE fan_speed.value = _current_fan_speed /\ Len(fan_speed.logs) = 1

\* C6: once a poll has succeeded, fan_speed_list returns exactly the names
\* Silent, Standard, Medium, Turbo.
C6_FanSpeedListNames ==
    lastStatus # PyNone =>
        /\ fan_speed_list.value.t = "list"
        /\ {fan_speed_list.value.v[i] : i \in 1..Len(fan_speed_list.value.v)}
              = SpeedNames

\* C7: locate, start, stop, pause and return_to_base each issue exactly one
\* device call and let no exception out; _try_command yields True when the
\* call returns, and logs an error and yields False when it raises a
\* device-communication failure.
C7_CommandsAreGuarded ==
    lastOp.op \in CommandOps =>
        /\ Len(calls) = 1
        /\ raised = "none"
        /\ lastOp.phase = "returned" => dev \in {"ok", "DeviceException"}
        /\ dev = "ok" => guard = PyBool(TRUE) /\ logs = <<>>
        /\ dev = "DeviceException" =>
              /\ guard = PyBool(FALSE)
              /\ Len(logs) = 1
              /\ logs[1].level = "error"

\* a guarded command whose device call raised
C7_Witness ==
    /\ lastOp.op = "return_to_base"
    /\ lastOp.phase = "returned"
    /\ dev = "DeviceException"
    /\ guard = PyBool(FALSE)
    /\ calls = <<Call("return_home", <<>>)>>

\* C8: while no poll has succeeded, state, battery_level, fan_speed and the
\* attributes return nothing and fan_speed_list returns an empty collection.
C8_NothingBeforeFirstPoll ==
    lastStatus = PyNone =>
        Observed = <<PyNone, PyNone, PyNone, PyList(<<>>), PyNone>>

\* no poll has succeeded, a command is awaiting its device call and a poll
\* has just failed
C8_Witness ==
    /\ lastStatus = PyNone
    /\ lastOp.op = "update"
    /\ dev = "OSError"
    /\ inflight # EmptyBag

\* C9: pause and stop issue the same device calls: exactly one call of the
\* device client's stop operation.
C9_PauseIsStop ==
    /\ lastOp.op \in {"pause", "stop"} => calls = <<Call("stop", <<>>)>>
    /\ \A inv \in BagToSet(inflight) :
          inv.op \in {"pause", "stop"} => inv.call = Call("stop", <<>>)

\* pause has run and called the device client
C9_Witness ==
    /\ lastOp.op = "pause"
    /\ lastOp.phase = "returned"
    /\ dev = "ok"
    /\ Len(calls) = 1

\* C10: in every state the snapshot fields together equal the fields of the
\* object the latest successful poll returned (all None before the first).
C10_SnapshotIsLatestStatus ==
    IF lastStatus = PyNone
    THEN \A i \in 1..Len(snapshot) : snapshot[i] = PyNone
    ELSE /\ vacuum_state = lastStatus.status
         /\ battery_percentage = lastStatus.battery
         /\ _current_fan_speed = lastStatus.fan_speed
         /\ _main_brush_time_left = lastStatus.brush_left_time
         /\ _main_brush_life_level = lastStatus.brush_life_level
         /\ _side_brush_time_left = lastStatus.brush_left_time2
         /\ _side_brush_life_level = lastStatus.brush_life_level2
         /\ _filter_life_level = lastStatus.filter_life_level
         /\ _filter_left_time = lastStatus.filter_left_time
         /\ _total_clean_count = lastStatus.total_clean_count

\* a command issued its device call and returned after a poll had stored a
\* snapshot
C10_Witness ==
    /\ lastStatus # PyNone
    /\ lastOp.op = "set_fan_speed"
    /\ lastOp.phase = "returned"
    /\ Len(calls) = 1
    /\ _side_brush_time_left = PyInt(24)

====
